---- MODULE Spec2Model ----
(***************************************************************************)
(* A model of explobook: the line grouper (extractor.py), the classifier   *)
(* (classifier.py), the Document classes (classifier.py and model.py) and  *)
(* the chapter grouper (exporter.py).                                      *)
(*                                                                         *)
(* Representation.                                                         *)
(*   - a str is a sequence of one-character strings;                       *)
(*   - a font name is the sequence of the weight/slant tokens it is made   *)
(*     of, so that `"Bold" in font` is membership of the token;            *)
(*   - a Word is a record with the keys of the Word TypedDict the code     *)
(*     reads;                                                              *)
(*   - a Line is [id, words]: Line defines no __eq__, so `line in xs` is   *)
(*     object identity, which the id field stands for;                     *)
(*   - elements carry two ghost fields the code does not have: src, the    *)
(*     ids of the lines the element was built from, and merges, the number *)
(*     of word-break repairs made while building it.                       *)
(***************************************************************************)
EXTENDS Integers, Sequences, FiniteSets, TLC

VARIABLES pc, block, elements, fixed, words, lines, page, document, allEls,
          documents, idx, chapters, titles, arg, after

vars == <<pc, block, elements, fixed, words, lines, page, document, allEls,
          documents, idx, chapters, titles, arg, after>>

(***************************************************************************)
(* Characters: the str predicates the code uses, over the model alphabet.  *)
(***************************************************************************)
UpperChars == {"A", "B", "C", "D"}

LowerChars == {"a", "b", "c", "d", "e", "i", "n", "o", "r", "s", "t", "u"}

DigitChars == {"1", "2"}

\* the glyphs of '-*#>' and U+2022, the last written "bullet"
BulletChars == {"-", "*", "#", ">", "bullet"}

isalpha(c) == c \in UpperChars \cup LowerChars

islower(c) == c \in LowerChars

isnumeric(c) == c \in DigitChars

(***************************************************************************)
(* Sequence helpers standing for Python built-ins.                         *)
(***************************************************************************)
Last(s) == s[Len(s)]

SetMin(S) == CHOOSE x \in S : \A y \in S : x <= y

SetMax(S) == CHOOSE x \in S : \A y \in S : x >= y

\* itertools.chain(*xs)
RECURSIVE chain(_)
chain(xs) == IF xs = <<>> THEN <<>> ELSE Head(xs) \o chain(Tail(xs))

\* " ".join(texts)
RECURSIVE join(_)
join(texts) ==
  IF texts = <<>> THEN <<>>
  ELSE IF Len(texts) = 1 THEN texts[1]
  ELSE texts[1] \o <<" ">> \o join(Tail(texts))

\* s[0:-2]
slice_0_m2(s) == IF Len(s) <= 2 THEN <<>> ELSE SubSeq(s, 1, Len(s) - 2)

\* [line for line in xs if line in keep], keep given by its ids
RECURSIVE filter(_, _)
filter(xs, keepIds) ==
  IF xs = <<>> THEN <<>>
  ELSE (IF Head(xs).id \in keepIds THEN <<Head(xs)>> ELSE <<>>)
       \o filter(Tail(xs), keepIds)

(***************************************************************************)
(* Font predicates and text formatting.                                    *)
(***************************************************************************)
contains(font, token) == \E i \in 1..Len(font) : font[i] = token

is_bold(font) == contains(font, "Black") \/ contains(font, "Bold")

is_italic(font) == contains(font, "Italic")

is_medium(font) == contains(font, "Medium")

font_style(font_name) ==
  LET bold == is_bold(font_name) \/ is_medium(font_name)
      italic == is_italic(font_name)
  IN IF bold /\ italic THEN "bold-italic"
     ELSE IF bold THEN "bold"
     ELSE IF italic THEN "italic"
     ELSE "normal"

\* itertools.groupby(words, key=fontname): maximal runs of equal font name
RECURSIVE groupby_font(_, _)
groupby_font(ws, acc) ==
  IF ws = <<>> THEN acc
  ELSE IF acc # <<>> /\ Last(acc)[1].fontname = Head(ws).fontname
       THEN groupby_font(Tail(ws),
              [acc EXCEPT ![Len(acc)] = Append(@, Head(ws))])
       ELSE groupby_font(Tail(ws), Append(acc, <<Head(ws)>>))

FormattedText(style, text) == [style |-> style, text |-> text]

format_text(ws) ==
  LET groups == groupby_font(ws, <<>>)
  IN [g \in 1..Len(groups) |->
        FormattedText(font_style(groups[g][1].fontname),
                      join([k \in 1..Len(groups[g]) |-> groups[g][k].text]))]

(***************************************************************************)
(* Words, lines and boxes.                                                 *)
(***************************************************************************)
Word(text, fontname, size, x0, x1, top, bottom) ==
  [text |-> text, fontname |-> fontname, size |-> size,
   x0 |-> x0, x1 |-> x1, top |-> top, bottom |-> bottom]

Line(id, ws) == [id |-> id, words |-> ws]

ids_of(ls) == [i \in 1..Len(ls) |-> ls[i].id]

id_set(ls) == {ls[i].id : i \in 1..Len(ls)}

calculate_box(ls) ==
  LET full == {i \in 1..Len(ls) : ls[i].words # <<>>}
      x0 == SetMin({ls[i].words[1].x0 : i \in full})
      bottom == Last(ls).words[1].bottom
      x1 == SetMax({Last(ls[i].words).x1 : i \in full})
      top == ls[1].words[1].top
  IN <<x0, bottom, x1, top>>

(***************************************************************************)
(* Word-break repair.  The loop body for one index, then the loop.  The    *)
(* result is [lines, repaired]: the lines as the in-place updates leave    *)
(* them, and (ghost) the indexes at which the branch of line 199 ran.      *)
(***************************************************************************)
\* words.remove(w): drops the first element equal to w
RECURSIVE remove(_, _)
remove(ws, w) ==
  IF ws = <<>> THEN <<>>
  ELSE IF Head(ws) = w THEN Tail(ws)
  ELSE <<Head(ws)>> \o remove(Tail(ws), w)

fix_pair(st, index) ==
  LET ls == st.lines IN
  IF ls[index].words = <<>> THEN st
  ELSE
    LET last_word == Last(ls[index].words)
        next_line_word == ls[index + 1].words[1]
    IN IF Last(last_word.text) = "-"
       THEN LET merged == [last_word EXCEPT
                             !.text = slice_0_m2(@) \o next_line_word.text]
                cur == [ls[index] EXCEPT !.words[Len(ls[index].words)] = merged]
                nxt == [ls[index + 1] EXCEPT
                          !.words = remove(@, next_line_word)]
            IN [lines |-> [ls EXCEPT ![index] = cur, ![index + 1] = nxt],
                repaired |-> st.repaired \cup {index}]
       ELSE st

\* for index in range(len(lines) - 2), as the 1-based indexes 1..len-2
RECURSIVE fix_loop(_, _, _)
fix_loop(st, index, stop) ==
  IF index > stop THEN st
  ELSE fix_loop(fix_pair(st, index), index + 1, stop)

fix_word_breaks(ls) ==
  fix_loop([lines |-> ls, repaired |-> {}], 1, Len(ls) - 2)

(***************************************************************************)
(* Structural elements.  One record shape for the four classes, told       *)
(* apart by type; the fields a class does not have are empty.              *)
(***************************************************************************)
Header(level, formatted_text, box, src) ==
  [type |-> "Header", level |-> level, kind |-> "", text |-> formatted_text,
   items |-> <<>>, box |-> box, src |-> src, merges |-> 0]

Paragraph(text, box, src, merges) ==
  [type |-> "Paragraph", level |-> "", kind |-> "", text |-> text,
   items |-> <<>>, box |-> box, src |-> src, merges |-> merges]

Listing(kind, items, box, src, merges) ==
  [type |-> "Listing", level |-> "", kind |-> kind, text |-> <<>>,
   items |-> items, box |-> box, src |-> src, merges |-> merges]

TableText(box) ==
  [type |-> "TableText", level |-> "", kind |-> "", text |-> <<>>,
   items |-> <<>>, box |-> box, src |-> <<>>, merges |-> 0]

(***************************************************************************)
(* Header test and header level.                                           *)
(***************************************************************************)
\* header_level with size >= 10 for the medium rule
header_level_medium_ge(line) ==
  LET first_word == line.words[1]
      size == first_word.size
      bold == is_bold(first_word.fontname)
      medium == is_medium(first_word.fontname)
  IN IF bold /\ size > 20 THEN "h1"
     ELSE IF medium /\ size >= 10 THEN "h2"
     ELSE "h3"

\* header_level with size >= 20 for the bold rule
header_level_bold_ge(line) ==
  LET first_word == line.words[1]
      size == first_word.size
      bold == is_bold(first_word.fontname)
      medium == is_medium(first_word.fontname)
  IN IF bold /\ size >= 20 THEN "h1"
     ELSE IF medium /\ size > 10 THEN "h2"
     ELSE "h3"

header_level(line) ==
  LET first_word == line.words[1]
      size == first_word.size
      bold == is_bold(first_word.fontname)
      medium == is_medium(first_word.fontname)
  IN IF bold /\ size > 20 THEN "h1"
     ELSE IF medium /\ size > 10 THEN "h2"
     ELSE "h3"

classify_header(line) ==
  Header(header_level(line), format_text(line.words), calculate_box(<<line>>),
         <<line.id>>)

is_all_caps(line) ==
  \A w \in 1..Len(line.words) :
    \A c \in 1..Len(line.words[w].text) :
      isalpha(line.words[w].text[c]) => ~islower(line.words[w].text[c])

\* the condition under which try_header does not return None (lines 275-280)
header_test(first_line) ==
  LET first_word == first_line.words[1]
      size == first_word.size
      medium == size = 10 /\ \A w \in 1..Len(first_line.words) :
                  is_medium(first_line.words[w].fontname)
                  \/ is_bold(first_line.words[w].fontname)
      big == is_all_caps(first_line) /\ size >= 10
             /\ (is_bold(first_word.fontname) \/ is_medium(first_word.fontname))
  IN big \/ medium

(***************************************************************************)
(* List items.                                                             *)
(***************************************************************************)
\* is_unordered_list_item comparing the whole first word with a glyph
is_unordered_list_item_whole(line) ==
  Len(line.words[1].text) = 1 /\ line.words[1].text[1] \in BulletChars

is_unordered_list_item(line) ==
  line.words[1].text[1] \in BulletChars

is_ordered_list_item(line) ==
  LET first_word == line.words[1].text
  IN IF Len(first_word) = 1 THEN FALSE
     ELSE isnumeric(first_word[1]) /\ ~isalpha(first_word[2])

\* group_list_items whose else branch opens an item of its own
RECURSIVE group_list_items_each(_, _)
group_list_items_each(ls, list_item_start) ==
  IF ls = <<>> THEN <<>>
  ELSE Append(group_list_items_each(SubSeq(ls, 1, Len(ls) - 1), list_item_start),
              <<Last(ls)>>)

\* the loop of group_list_items: ol after the lines seen so far.  While ol
\* is empty the variable item is a list that is in no ol, so a line that
\* precedes the first start is appended to a list nobody keeps.
RECURSIVE group_list_items(_, _)
group_list_items(ls, list_item_start) ==
  IF ls = <<>> THEN <<>>
  ELSE LET ol == group_list_items(SubSeq(ls, 1, Len(ls) - 1), list_item_start)
           line == Last(ls)
       IN IF line.id \in id_set(list_item_start)
          THEN Append(ol, <<line>>)
          ELSE IF ol = <<>> THEN ol
          ELSE [ol EXCEPT ![Len(ol)] = Append(@, line)]

\* tokenize_list: [items, box] and, ghost, the number of repairs
tokenize_list(ol) ==
  LET fx == [i \in 1..Len(ol) |-> fix_word_breaks(ol[i])]
      items == [i \in 1..Len(ol) |->
                  format_text(chain([k \in 1..Len(fx[i].lines) |->
                                       fx[i].lines[k].words]))]
      box == calculate_box(chain([i \in 1..Len(ol) |-> fx[i].lines]))
      RECURSIVE total(_)
      total(i) == IF i = 0 THEN 0 ELSE Cardinality(fx[i].repaired) + total(i - 1)
  IN [items |-> items, box |-> box, merges |-> total(Len(ol))]

(***************************************************************************)
(* Paragraphs.                                                             *)
(***************************************************************************)
create_paragraph(ls) ==
  LET box == calculate_box(ls)
      fx == fix_word_breaks(ls)
      ws == chain([k \in 1..Len(fx.lines) |-> fx.lines[k].words])
  IN Paragraph(format_text(ws), box, ids_of(ls), Cardinality(fx.repaired))

\* functools.reduce(group, lines, [])
RECURSIVE group_paragraphs(_, _)
group_paragraphs(min_indent, ls) ==
  IF ls = <<>> THEN <<>>
  ELSE LET paragraphs == group_paragraphs(min_indent, SubSeq(ls, 1, Len(ls) - 1))
           line == Last(ls)
           indent == line.words[1].x0
       IN IF paragraphs = <<>> THEN << <<line>> >>
          ELSE IF indent >= min_indent + 2 THEN Append(paragraphs, <<line>>)
          ELSE [paragraphs EXCEPT ![Len(paragraphs)] = Append(@, line)]

grouped_paragraphs(min_indent, ls) ==
  LET paragraphs_grouped == group_paragraphs(min_indent, ls)
  IN [p \in 1..Len(paragraphs_grouped) |->
        create_paragraph(paragraphs_grouped[p])]

\* called with a non-empty list only (classify_lines returns at line 117)
paragraph(ls) ==
  LET min_indent == SetMin({ls[i].words[1].x0 : i \in 1..Len(ls)})
  IN IF min_indent >= 120 THEN <<create_paragraph(ls)>>
     ELSE grouped_paragraphs(min_indent, ls)

(***************************************************************************)
(* classify_lines and the three matchers that recurse into it.  None is    *)
(* the empty sequence: every matcher that matches returns a non-empty      *)
(* list, and the callers test the result for truth.                        *)
(***************************************************************************)
RECURSIVE classify_lines(_)

\* try_header that returns the header alone and forgets the rest
try_header_alone(ls) ==
  IF ls = <<>> THEN <<>>
  ELSE IF ~header_test(ls[1]) THEN <<>>
  ELSE <<classify_header(ls[1])>>

try_header(ls) ==
  IF ls = <<>> THEN <<>>
  ELSE LET first_line == ls[1]
           rest == Tail(ls)
       IN IF ~header_test(first_line) THEN <<>>
          ELSE LET header == classify_header(first_line)
               IN IF rest # <<>> THEN <<header>> \o classify_lines(rest)
                  ELSE <<header>>

\* the starts_item argument of try_list: try_ol passes is_ordered_list_item
\* with kind 'ordered', try_ul passes is_unordered_list_item with 'unordered'
starts_item(line, kind) ==
  IF kind = "ordered" THEN is_ordered_list_item(line)
  ELSE is_unordered_list_item(line)

\* no_items testing `line not in ol`: a Line is never equal to a list of Lines
no_items_not_in_ol(ls, ol) == ls

\* items = list(itertools.chain(*ol)); [line for line in lines if line not in items]
no_items(ls, ol) == filter(ls, id_set(ls) \ id_set(chain(ol)))

\* try_list that puts the listing before the elements of no_items
try_list_listing_first(ls, kind) ==
  LET marked == {i \in 1..Len(ls) : starts_item(ls[i], kind)}
      ordered == filter(ls, {ls[i].id : i \in marked})
  IN IF ordered = <<>> THEN <<>>
     ELSE LET ol == group_list_items(ls, ordered)
              tk == tokenize_list(ol)
              listing == Listing(kind, tk.items, tk.box, ids_of(chain(ol)),
                                 tk.merges)
          IN <<listing>> \o classify_lines(no_items(ls, ol))

try_list(ls, kind) ==
  LET marked == {i \in 1..Len(ls) : starts_item(ls[i], kind)}
      ordered == filter(ls, {ls[i].id : i \in marked})
  IN IF ordered = <<>> THEN <<>>
     ELSE LET ol == group_list_items(ls, ordered)
              tk == tokenize_list(ol)
              listing == Listing(kind, tk.items, tk.box, ids_of(chain(ol)),
                                 tk.merges)
          IN classify_lines(no_items(ls, ol)) \o <<listing>>

try_ol(ls) == try_list(ls, "ordered")

try_ul(ls) == try_list(ls, "unordered")

classify_lines(ls) ==
  IF ls = <<>> THEN ls
  ELSE LET header == try_header(ls) IN
       IF header # <<>> THEN header
       ELSE LET ol == try_ol(ls) IN
            IF ol # <<>> THEN ol
            ELSE LET ul == try_ul(ls) IN
                 IF ul # <<>> THEN ul
                 ELSE paragraph(ls)

(***************************************************************************)
(* classify and the two Document classes.  classifier.Document is the      *)
(* class classify instantiates; model.Document is the class exporter.py    *)
(* imports.  all_elements returns [none, val]: none is TRUE when the       *)
(* method falls off its end and returns None.                              *)
(***************************************************************************)
Document(cls, els, tables) == [cls |-> cls, elements |-> els, tables |-> tables]

classify(pg) ==
  Document("classifier",
           chain([s \in 1..Len(pg.sections) |-> classify_lines(pg.sections[s])]),
           pg.tables)

\* sorted(xs, key=lambda el: el.box[1]): a stable insertion of each element
RECURSIVE sorted_by_box1(_)
sorted_by_box1(xs) ==
  IF xs = <<>> THEN <<>>
  ELSE LET done == sorted_by_box1(SubSeq(xs, 1, Len(xs) - 1))
           x == Last(xs)
           before == {i \in 1..Len(done) : done[i].box[2] <= x.box[2]}
           n == Cardinality(before)
       IN SubSeq(done, 1, n) \o <<x>> \o SubSeq(done, n + 1, Len(done))

all_elements(doc) ==
  IF doc.cls = "classifier"
  THEN [none |-> TRUE, val |-> <<>>]
  ELSE [none |-> FALSE, val |-> sorted_by_box1(doc.elements \o doc.tables)]

headers(doc) ==
  LET hs == {i \in 1..Len(doc.elements) : doc.elements[i].type = "Header"}
      RECURSIVE pick(_)
      pick(i) == IF i > Len(doc.elements) THEN <<>>
                 ELSE (IF i \in hs THEN <<doc.elements[i]>> ELSE <<>>) \o pick(i + 1)
  IN pick(1)

\* Header.text()
header_text(h) == join([i \in 1..Len(h.text) |-> h.text[i].text])

(***************************************************************************)
(* Input blocks.  A line shape is a sequence of [text, fontname, size];    *)
(* MkLine places its words: line id sits at top 12*id, bottom 12*id + 10,  *)
(* so consecutive lines are 2 units apart (one section), and word j        *)
(* starts at indent + 10*(j-1).                                            *)
(***************************************************************************)
MaxLines == 4

Normal == <<"Normal">>

NormalItalic == <<"Normal", "Italic">>

Bold == <<"Bold">>

Black == <<"Black">>

Medium == <<"Medium">>

T_ab == <<"a", "b">>

T_cons == <<"c", "o", "n", "s", "-">>

T_truc == <<"t", "r", "u", "c", "c", "i", "o", "n", "e", "s">>

T_1dot == <<"1", ".">>

T_dab == <<"-", "a", "b">>

T_AB == <<"A", "B">>

T_Ab == <<"A", "b">>

T_CD == <<"C", "D">>

W(text, fontname, size) == [text |-> text, fontname |-> fontname, size |-> size]

MkLine(id, shape, indent) ==
  Line(id, [j \in 1..Len(shape) |->
              Word(shape[j].text, shape[j].fontname, shape[j].size,
                   indent + 10 * (j - 1), indent + 10 * (j - 1) + 8,
                   12 * id, 12 * id + 10)])

\* body and list lines, each with the left indents it is tried at
BodyLines ==
  {<<<<W(T_ab, Normal, 9)>>, 100>>,
   <<<<W(T_ab, Normal, 9), W(T_cons, Normal, 9)>>, 101>>,
   <<<<W(T_cons, Normal, 9)>>, 130>>,
   <<<<W(T_truc, Normal, 9), W(T_ab, NormalItalic, 9)>>, 102>>,
   <<<<W(T_1dot, Normal, 9), W(T_ab, Normal, 9)>>, 100>>,
   <<<<W(T_1dot, Normal, 9), W(T_cons, Normal, 9)>>, 100>>,
   <<<<W(T_dab, Normal, 9), W(T_ab, Normal, 9)>>, 100>>,
   <<<<W(T_AB, Bold, 24)>>, 100>>}

\* first lines for the header rules: size x font x case x second word
HeaderSizes == {9, 10, 11, 20, 21, 24}

HeaderFonts == {Normal, Bold, Black, Medium}

HeaderLines ==
  {<<<<W(t, f, z)>> \o rest, 100>> :
     <<t, f, z, rest>> \in
       {T_AB, T_Ab} \X HeaderFonts \X HeaderSizes
       \X {<<>>, <<W(T_ab, Normal, 9)>>, <<W(T_CD, Bold, 9)>>}}

SecondLines ==
  {<<<<W(T_ab, Normal, 9)>>, 100>>,
   <<<<W(T_1dot, Normal, 9), W(T_ab, Normal, 9)>>, 100>>,
   <<<<W(T_AB, Bold, 24)>>, 100>>}

MkBlock(picks) == [i \in 1..Len(picks) |-> MkLine(i, picks[i][1], picks[i][2])]

SeqsUpTo(S, n) == UNION {[1..k -> S] : k \in 0..n}

Blocks ==
  {MkBlock(p) : p \in SeqsUpTo(BodyLines, MaxLines)}
  \cup {MkBlock(<<h>>) : h \in HeaderLines}
  \cup {MkBlock(<<h, b>>) : h \in HeaderLines, b \in SecondLines}

(***************************************************************************)
(* The classifier run on one block: classify_lines, or fix_word_breaks     *)
(* alone.                                                                  *)
(***************************************************************************)
NoDoc == Document("classifier", <<>>, <<>>)

NoPage == [sections |-> <<>>, tables |-> <<>>]

NoFix == [lines |-> <<>>, repaired |-> {}]

NoAll == [none |-> TRUE, val |-> <<>>]

InitClassify ==
  /\ pc = "start"
  /\ arg = <<>> /\ after = <<>>
  /\ block \in Blocks
  /\ elements = <<>>
  /\ fixed = NoFix
  /\ words = <<>> /\ lines = <<>>
  /\ page = NoPage /\ document = NoDoc /\ allEls = NoAll
  /\ documents = <<>> /\ idx = 0 /\ chapters = <<>> /\ titles = <<>>

ClassifyLines ==
  /\ pc = "start"
  /\ elements' = classify_lines(block)
  /\ pc' = "classified"
  /\ UNCHANGED <<arg, after, block, fixed, words, lines, page, document, allEls,
                 documents, idx, chapters, titles>>

FixWordBreaks ==
  /\ pc = "start"
  /\ fixed' = fix_word_breaks(block)
  /\ pc' = "fixed"
  /\ UNCHANGED <<arg, after, block, elements, words, lines, page, document, allEls,
                 documents, idx, chapters, titles>>

NextClassify == ClassifyLines \/ FixWordBreaks

SpecClassify == InitClassify /\ [][NextClassify]_vars

(***************************************************************************)
(* The recursion of classify_lines, one call per step.  arg is the list    *)
(* the pending call was given, idx its depth, elements what the enclosing  *)
(* calls put before its result and after what they append to it.  The      *)
(* caller runs one call at a time to its end, hence the weak fairness.     *)
(* The outermost call is CallClassifyLines, on any block of the palette.   *)
(* No call of the code is deeper than the block is long plus one; the      *)
(* guard idx <= MaxLines + 1 caps the depth of the model.                  *)
(***************************************************************************)
has_item_start(ls, kind) == \E i \in 1..Len(ls) : starts_item(ls[i], kind)

\* the Listing try_list builds from ls
listing_of(ls, kind) ==
  LET marked == {i \in 1..Len(ls) : starts_item(ls[i], kind)}
      ol == group_list_items(ls, filter(ls, {ls[i].id : i \in marked}))
      tk == tokenize_list(ol)
  IN Listing(kind, tk.items, tk.box, ids_of(chain(ol)), tk.merges)

\* what try_list hands to the recursive call
rest_of(ls, kind) ==
  LET marked == {i \in 1..Len(ls) : starts_item(ls[i], kind)}
  IN no_items(ls, group_list_items(ls, filter(ls, {ls[i].id : i \in marked})))

InitRecursion ==
  /\ pc = "caller"
  /\ block = <<>>
  /\ arg = <<>>
  /\ idx = 0
  /\ elements = <<>>
  /\ after = <<>>
  /\ fixed = NoFix
  /\ words = <<>> /\ lines = <<>>
  /\ page = NoPage /\ document = NoDoc /\ allEls = NoAll
  /\ documents = <<>> /\ chapters = <<>> /\ titles = <<>>

\* classify_lines(lines): the outermost call, on a block of the caller
CallClassifyLines ==
  /\ pc = "caller"
  /\ block' \in Blocks
  /\ arg' = block'
  /\ idx' = 1
  /\ pc' = "call"
  /\ UNCHANGED <<elements, fixed, words, lines, page, document, allEls,
                 documents, chapters, titles, after>>

\* if not lines: return lines
ReturnEmpty ==
  /\ pc = "call"
  /\ arg = <<>>
  /\ elements' = elements \o after
  /\ pc' = "returned"
  /\ UNCHANGED <<block, fixed, words, lines, page, document, allEls,
                 documents, idx, chapters, titles, arg, after>>

\* if header := try_header(lines): with a rest, the recursive call on it
MatchHeader ==
  /\ pc = "call"
  /\ arg # <<>>
  /\ header_test(arg[1])
  /\ IF Tail(arg) = <<>>
     THEN /\ elements' = elements \o <<classify_header(arg[1])>> \o after
          /\ pc' = "returned"
          /\ UNCHANGED <<arg, idx>>
     ELSE /\ idx <= MaxLines + 1
          /\ elements' = Append(elements, classify_header(arg[1]))
          /\ arg' = Tail(arg)
          /\ idx' = idx + 1
          /\ pc' = "call"
  /\ UNCHANGED <<block, fixed, words, lines, page, document, allEls,
                 documents, chapters, titles, after>>

\* elif ol := try_ol(lines): the recursive call on no_items
MatchOrdered ==
  /\ pc = "call"
  /\ arg # <<>>
  /\ ~header_test(arg[1])
  /\ has_item_start(arg, "ordered")
  /\ idx <= MaxLines + 1
  /\ after' = <<listing_of(arg, "ordered")>> \o after
  /\ arg' = rest_of(arg, "ordered")
  /\ idx' = idx + 1
  /\ UNCHANGED <<pc, block, elements, fixed, words, lines, page, document,
                 allEls, documents, chapters, titles>>

\* elif ul := try_ul(lines): the recursive call on no_items
MatchUnordered ==
  /\ pc = "call"
  /\ arg # <<>>
  /\ ~header_test(arg[1])
  /\ ~has_item_start(arg, "ordered")
  /\ has_item_start(arg, "unordered")
  /\ idx <= MaxLines + 1
  /\ after' = <<listing_of(arg, "unordered")>> \o after
  /\ arg' = rest_of(arg, "unordered")
  /\ idx' = idx + 1
  /\ UNCHANGED <<pc, block, elements, fixed, words, lines, page, document,
                 allEls, documents, chapters, titles>>

\* else: return paragraph(lines)
ParagraphFallback ==
  /\ pc = "call"
  /\ arg # <<>>
  /\ ~header_test(arg[1])
  /\ ~has_item_start(arg, "ordered")
  /\ ~has_item_start(arg, "unordered")
  /\ elements' = elements \o paragraph(arg) \o after
  /\ pc' = "returned"
  /\ UNCHANGED <<block, fixed, words, lines, page, document, allEls,
                 documents, idx, chapters, titles, arg, after>>

NextRecursion ==
  CallClassifyLines \/ ReturnEmpty \/ MatchHeader \/ MatchOrdered \/ MatchUnordered
  \/ ParagraphFallback

\* the branches of classify_lines that end in a recursive call
recursive_call(ls) ==
  /\ ls # <<>>
  /\ IF header_test(ls[1]) THEN Tail(ls) # <<>>
     ELSE has_item_start(ls, "ordered") \/ has_item_start(ls, "unordered")

\* NextRecursion as it moves pc and idx: a call is made, or returns
Control ==
  \/ /\ pc = "caller"
     /\ pc' = "call"
     /\ idx' = 1
  \/ /\ pc = "call"
     /\ recursive_call(arg)
     /\ idx <= MaxLines + 1
     /\ pc' = "call"
     /\ idx' = idx + 1
  \/ /\ pc = "call"
     /\ ~recursive_call(arg)
     /\ pc' = "returned"
     /\ idx' = idx

\* The interpreter runs a call until it returns: weak fairness of the steps,
\* stated on pc and idx, which every step changes.
SpecRecursion ==
  InitRecursion /\ [][NextRecursion]_vars /\ WF_<<pc, idx>>(Control)

(***************************************************************************)
(* group_lines: functools.reduce(group_by_baseline, words, []), one word   *)
(* per step, then the wrapping of each list of words in a Line.            *)
(***************************************************************************)
MaxWords == 5

Bottoms == {20, 21, 22, 24}

\* group_by_baseline measuring against the first word of the line
group_by_baseline_first(ls, word) ==
  IF ls = <<>> THEN << <<word>> >>
  ELSE LET line == Last(ls)
           baseline == line[1].bottom
           d == baseline - word.bottom
       IN IF (IF d < 0 THEN -d ELSE d) <= 1
          THEN [ls EXCEPT ![Len(ls)] = Append(@, word)]
          ELSE Append(ls, <<word>>)

\* group_by_baseline with a tolerance of 2
group_by_baseline_tol2(ls, word) ==
  IF ls = <<>> THEN << <<word>> >>
  ELSE LET line == Last(ls)
           baseline == Last(line).bottom
           d == baseline - word.bottom
       IN IF (IF d < 0 THEN -d ELSE d) <= 2
          THEN [ls EXCEPT ![Len(ls)] = Append(@, word)]
          ELSE Append(ls, <<word>>)

group_by_baseline(ls, word) ==
  IF ls = <<>> THEN << <<word>> >>
  ELSE LET line == Last(ls)
           baseline == Last(line).bottom
           d == baseline - word.bottom
       IN IF (IF d < 0 THEN -d ELSE d) <= 1
          THEN [ls EXCEPT ![Len(ls)] = Append(@, word)]
          ELSE Append(ls, <<word>>)

\* the integer-valued words normalize hands to group_lines
WordSeqs ==
  {[j \in 1..Len(bs) |->
      Word(T_ab, Normal, 9, 100 + 10 * j, 108 + 10 * j, bs[j] - 10, bs[j])] :
     bs \in SeqsUpTo(Bottoms, MaxWords)}

InitLines ==
  /\ pc = "grouping"
  /\ arg = <<>> /\ after = <<>>
  /\ words \in WordSeqs
  /\ idx = 0
  /\ lines = <<>>
  /\ block = <<>> /\ elements = <<>> /\ fixed = NoFix
  /\ page = NoPage /\ document = NoDoc /\ allEls = NoAll
  /\ documents = <<>> /\ chapters = <<>> /\ titles = <<>>

GroupByBaseline ==
  /\ pc = "grouping"
  /\ idx < Len(words)
  /\ lines' = group_by_baseline(lines, words[idx + 1])
  /\ idx' = idx + 1
  /\ UNCHANGED <<arg, after, pc, block, elements, fixed, words, page, document, allEls,
                 documents, chapters, titles>>

\* return [Line(line) for line in lines]
WrapLines ==
  /\ pc = "grouping"
  /\ idx = Len(words)
  /\ lines' = [k \in 1..Len(lines) |-> Line(k, lines[k])]
  /\ pc' = "lines"
  /\ UNCHANGED <<arg, after, block, elements, fixed, words, idx, page, document, allEls,
                 documents, chapters, titles>>

NextLines == GroupByBaseline \/ WrapLines

SpecLines == InitLines /\ [][NextLines]_vars

(***************************************************************************)
(* One page through classify and Document.all_elements.  The lines of      *)
(* section s follow those of section s-1 after a gap of one line height;   *)
(* a table is its bbox (x0, top, x1, bottom), kept as the box.             *)
(***************************************************************************)
MaxSections == 2

SectionLines ==
  {<<<<W(T_ab, Normal, 9)>>, 100>>,
   <<<<W(T_1dot, Normal, 9), W(T_ab, Normal, 9)>>, 100>>,
   <<<<W(T_dab, Normal, 9)>>, 100>>,
   <<<<W(T_AB, Bold, 24)>>, 100>>}

SectionPicks == {p \in SeqsUpTo(SectionLines, 2) : p # <<>>}

MkSection(picks, first_id) ==
  [i \in 1..Len(picks) |-> MkLine(first_id + i - 1, picks[i][1], picks[i][2])]

RECURSIVE MkSections(_, _)
MkSections(pickss, first_id) ==
  IF pickss = <<>> THEN <<>>
  ELSE <<MkSection(Head(pickss), first_id)>>
       \o MkSections(Tail(pickss), first_id + Len(Head(pickss)) + 1)

TableTops == {0, 30, 60}

TableSeqs ==
  {[k \in 1..Len(ts) |-> TableText(<<100, ts[k], 200, ts[k] + 20>>)] :
     ts \in SeqsUpTo(TableTops, 2)}

Pages ==
  {[sections |-> MkSections(ps, 1), tables |-> t] :
     ps \in SeqsUpTo(SectionPicks, MaxSections), t \in TableSeqs}

InitDocument ==
  /\ pc = "page"
  /\ arg = <<>> /\ after = <<>>
  /\ page \in Pages
  /\ document = NoDoc /\ allEls = NoAll
  /\ block = <<>> /\ elements = <<>> /\ fixed = NoFix
  /\ words = <<>> /\ lines = <<>>
  /\ documents = <<>> /\ idx = 0 /\ chapters = <<>> /\ titles = <<>>

Classify ==
  /\ pc = "page"
  /\ document' = classify(page)
  /\ pc' = "document"
  /\ UNCHANGED <<arg, after, block, elements, fixed, words, lines, page, allEls,
                 documents, idx, chapters, titles>>

AllElements ==
  /\ pc = "document"
  /\ allEls' = all_elements(document)
  /\ pc' = "all_elements"
  /\ UNCHANGED <<arg, after, block, elements, fixed, words, lines, page, document,
                 documents, idx, chapters, titles>>

NextDocument == Classify \/ AllElements

SpecDocument == InitDocument /\ [][NextDocument]_vars

(***************************************************************************)
(* export: group_chapters, one document per step, then chapter_title for   *)
(* each chapter as to_html asks for it.  The documents of a run are all    *)
(* of one class: classifier.Document, which classify instantiates, or      *)
(* model.Document, which group_chapters is declared to take.               *)
(***************************************************************************)
MaxDocs == 5

DocBlocks ==
  {MkBlock(p) : p \in
     {<<>>,
      <<<<<<W(T_ab, Normal, 9)>>, 100>>>>,
      <<<<<<W(T_AB, Bold, 24)>>, 100>>>>,
      <<<<<<W(T_CD, Medium, 12)>>, 100>>>>,
      <<<<<<W(T_CD, Medium, 12)>>, 100>>, <<<<W(T_AB, Bold, 24)>>, 100>>>>}}

DocPalette(cls) ==
  {Document(cls, classify_lines(b), <<>>) : b \in DocBlocks}
  \cup {Document(cls, <<>>, <<TableText(<<100, 0, 200, 20>>)>>)}

\* not document.all_elements()
not_all_elements(doc) ==
  LET r == all_elements(doc) IN r.none \/ r.val = <<>>

\* any(header for header in document.headers() if header.level == 'h1')
has_title(doc) ==
  \E i \in 1..Len(headers(doc)) : headers(doc)[i].level = "h1"

\* chapter[0].headers()[0].text(); raised when headers() is empty
chapter_title(chapter) ==
  LET hs == headers(chapter[1])
  IN IF hs = <<>> THEN [raised |-> TRUE, text |-> <<>>]
     ELSE [raised |-> FALSE, text |-> header_text(hs[1])]

InitExport ==
  /\ pc = "group_chapters"
  /\ arg = <<>> /\ after = <<>>
  /\ \E cls \in {"classifier", "model"} :
       documents \in SeqsUpTo(DocPalette(cls), MaxDocs)
  /\ idx = 0
  /\ chapters = <<>>
  /\ titles = <<>>
  /\ block = <<>> /\ elements = <<>> /\ fixed = NoFix
  /\ words = <<>> /\ lines = <<>>
  /\ page = NoPage /\ document = NoDoc /\ allEls = NoAll

SkipDocument ==
  /\ pc = "group_chapters"
  /\ idx < Len(documents)
  /\ not_all_elements(documents[idx + 1])
  /\ idx' = idx + 1
  /\ UNCHANGED <<arg, after, pc, block, elements, fixed, words, lines, page, document,
                 allEls, documents, chapters, titles>>

StartChapter ==
  /\ pc = "group_chapters"
  /\ idx < Len(documents)
  /\ ~not_all_elements(documents[idx + 1])
  /\ has_title(documents[idx + 1]) \/ chapters = <<>>
  /\ chapters' = Append(chapters, <<documents[idx + 1]>>)
  /\ idx' = idx + 1
  /\ UNCHANGED <<arg, after, pc, block, elements, fixed, words, lines, page, document,
                 allEls, documents, titles>>

AppendDocument ==
  /\ pc = "group_chapters"
  /\ idx < Len(documents)
  /\ ~not_all_elements(documents[idx + 1])
  /\ ~(has_title(documents[idx + 1]) \/ chapters = <<>>)
  /\ chapters' = [chapters EXCEPT ![Len(chapters)] =
                    Append(@, documents[idx + 1])]
  /\ idx' = idx + 1
  /\ UNCHANGED <<arg, after, pc, block, elements, fixed, words, lines, page, document,
                 allEls, documents, titles>>

ReturnChapters ==
  /\ pc = "group_chapters"
  /\ idx = Len(documents)
  /\ pc' = "to_html"
  /\ UNCHANGED <<arg, after, block, elements, fixed, words, lines, page, document,
                 allEls, documents, idx, chapters, titles>>

\* the chapter_title call of to_html for the next chapter; an IndexError
\* is not caught and ends export
ChapterTitle ==
  /\ pc = "to_html"
  /\ Len(titles) < Len(chapters)
  /\ titles' = Append(titles, chapter_title(chapters[Len(titles) + 1]))
  /\ pc' = IF chapter_title(chapters[Len(titles) + 1]).raised
           THEN "IndexError" ELSE "to_html"
  /\ UNCHANGED <<arg, after, block, elements, fixed, words, lines, page, document,
                 allEls, documents, idx, chapters>>

NextExport ==
  SkipDocument \/ StartChapter \/ AppendDocument \/ ReturnChapters \/ ChapterTitle

SpecExport == InitExport /\ [][NextExport]_vars

(***************************************************************************)
(* Definitions the properties are stated with.                             *)
(***************************************************************************)
\* the words of a joined text: one more than its separating spaces
word_count(text) == 1 + Cardinality({i \in 1..Len(text) : text[i] = " "})

RECURSIVE Sum(_)
Sum(s) == IF s = <<>> THEN 0 ELSE Head(s) + Sum(Tail(s))

runs_words(runs) == Sum([r \in 1..Len(runs) |-> word_count(runs[r].text)])

element_words(el) ==
  IF el.type = "Listing"
  THEN Sum([i \in 1..Len(el.items) |-> runs_words(el.items[i])])
  ELSE runs_words(el.text)

line_by_id(ls, id) == CHOOSE l \in {ls[i] : i \in 1..Len(ls)} : l.id = id

src_words(ls, src) == Sum([k \in 1..Len(src) |-> Len(line_by_id(ls, src[k]).words)])

block_words(ls) == Sum([i \in 1..Len(ls) |-> Len(ls[i].words)])

all_src(els) == chain([e \in 1..Len(els) |-> els[e].src])

total_merges(els) == Sum([e \in 1..Len(els) |-> els[e].merges])

\* Line.text()
line_text(line) == join([j \in 1..Len(line.words) |-> line.words[j].text])

\* " ".join(formatted.text for formatted in item)
item_text(item) == join([r \in 1..Len(item) |-> item[r].text])

\* `a in b` for two strs
text_in(a, b) ==
  \E off \in 0..(Len(b) - Len(a)) : SubSeq(b, off + 1, off + Len(a)) = a

of_type(els, type) == {e \in 1..Len(els) : els[e].type = type}

\* C1: after classify_lines, the words held by the returned elements number
\* the words of the block less the word-break repairs made; element by
\* element they are the words of the lines the element was built from less
\* its own repairs, and every line of the block went into exactly one element.
C1_WordsConserved ==
  pc = "classified" =>
    /\ Sum([e \in 1..Len(elements) |-> element_words(elements[e])])
         = block_words(block) - total_merges(elements)
    /\ \A e \in 1..Len(elements) :
         element_words(elements[e])
           = src_words(block, elements[e].src) - elements[e].merges
    /\ Len(all_src(elements)) = Len(block)
    /\ \A i \in 1..Len(block) :
         Cardinality({k \in 1..Len(all_src(elements)) :
                        all_src(elements)[k] = block[i].id}) = 1

C1_Witness ==
  /\ pc = "classified"
  /\ of_type(elements, "Listing") # {}
  /\ of_type(elements, "Paragraph") # {}
  /\ \E e \in of_type(elements, "Listing") : elements[e].merges > 0

\* s with its trailing hyphen removed
strip_hyphen(s) == SubSeq(s, 1, Len(s) - 1)

\* C2: every pair (i, i+1) that fix_word_breaks repaired leaves the last
\* word of line i as its own text without the trailing hyphen followed by
\* the text of the first word of line i+1, and line i+1 without that word.
C2_MergedText ==
  pc = "fixed" =>
    \A i \in fixed.repaired :
      /\ Last(fixed.lines[i].words).text
           = strip_hyphen(Last(block[i].words).text) \o block[i + 1].words[1].text
      /\ Len(fixed.lines[i + 1].words) = Len(block[i + 1].words) - 1
      /\ \A k \in 1..Len(fixed.lines[i + 1].words) :
           fixed.lines[i + 1].words[k].x0 = block[i + 1].words[k + 1].x0

\* the first line of the block is of size 10, has a lower-case letter, and
\* all its words are in a bold or medium font
C3_Pre ==
  /\ block # <<>>
  /\ block[1].words[1].size = 10
  /\ ~is_all_caps(block[1])
  /\ \A w \in 1..Len(block[1].words) :
       contains(block[1].words[w].fontname, "Bold")
       \/ contains(block[1].words[w].fontname, "Black")
       \/ contains(block[1].words[w].fontname, "Medium")

C3_FirstIsHeader ==
  /\ elements # <<>>
  /\ elements[1].type = "Header"
  /\ elements[1].src = <<block[1].id>>

\* C3 as stated: such a first line becomes a Header of level h2.
C3_Size10IsH2 ==
  (pc = "classified" /\ C3_Pre) => (C3_FirstIsHeader /\ elements[1].level = "h2")

\* C3, amended: a first line of size 10, mixed case, with every word bold
\* or medium becomes a Header of level h3.
C3_Size10IsH3 ==
  (pc = "classified" /\ C3_Pre) => (C3_FirstIsHeader /\ elements[1].level = "h3")

C3_Witness ==
  /\ pc = "classified" /\ C3_Pre
  /\ contains(block[1].words[1].fontname, "Medium")
  /\ Len(block[1].words) = 2
  /\ Len(elements) = 2

\* the level C4 gives a line
C4_Level(line) ==
  LET w == line.words[1]
      bold == contains(w.fontname, "Black") \/ contains(w.fontname, "Bold")
  IN IF bold /\ w.size > 20 THEN "h1"
     ELSE IF contains(w.fontname, "Medium") /\ w.size > 10 THEN "h2"
     ELSE "h3"

\* C4: every Header has the level the first word of its line gives it (h1:
\* bold and size > 20; else h2: medium and size > 10; else h3), and a block
\* of one all-uppercase bold line of size 24 gives exactly one Header, h1.
C4_HeaderLevels ==
  pc = "classified" =>
    /\ \A e \in of_type(elements, "Header") :
         elements[e].level = C4_Level(line_by_id(block, elements[e].src[1]))
    /\ (/\ Len(block) = 1
        /\ is_all_caps(block[1])
        /\ \A w \in 1..Len(block[1].words) :
             block[1].words[w].size = 24
             /\ (contains(block[1].words[w].fontname, "Bold")
                 \/ contains(block[1].words[w].fontname, "Black")))
       => (Len(elements) = 1 /\ elements[1].type = "Header"
           /\ elements[1].level = "h1")

C4_Witness ==
  /\ pc = "classified"
  /\ Len(block) = 1 /\ block[1].words[1].size = 24
  /\ block[1].words[1].fontname = Black
  /\ is_all_caps(block[1])
  /\ Len(elements) = 1 /\ elements[1].level = "h1"

\* the lines of a block that start an ordered item, as C5 words it
C5_Marker(line) ==
  LET t == line.words[1].text
  IN Len(t) >= 2 /\ t[1] \in DigitChars /\ t[2] \notin UpperChars \cup LowerChars

\* the lines of a block that start an unordered item, as C6 words it
C6_Marker(line) == line.words[1].text[1] \in {"-", "*", "#", ">", "bullet"}

no_header_line(ls) == \A i \in 1..Len(ls) : ~header_test(ls[i])

\* the members of a set of indexes, in increasing order
in_order(S) ==
  [k \in 1..Cardinality(S) |->
     CHOOSE i \in S : Cardinality({j \in S : j < i}) = k - 1]

ordered_markers(ls) == in_order({i \in 1..Len(ls) : C5_Marker(ls[i])})

unordered_markers(ls) == in_order({i \in 1..Len(ls) : C6_Marker(ls[i])})

listings(els, kind) ==
  {e \in of_type(els, "Listing") : els[e].kind = kind}

C5_Pre == no_header_line(block) /\ ordered_markers(block) # <<>>

C5_OneListing ==
  /\ Cardinality(listings(elements, "ordered")) = 1
  /\ \A e \in listings(elements, "ordered") :
       Len(elements[e].items) = Len(ordered_markers(block))

\* C5 as stated: one ordered Listing, an item per marker line, in order,
\* and the k-th item's joined text contains the k-th marker line's text.
C5_ItemsHoldMarkerLines ==
  (pc = "classified" /\ C5_Pre) =>
    /\ C5_OneListing
    /\ \A e \in listings(elements, "ordered") :
         \A k \in 1..Len(ordered_markers(block)) :
           text_in(line_text(block[ordered_markers(block)[k]]),
                   item_text(elements[e].items[k]))

\* C5, amended: one ordered Listing, an item per marker line, in order, and
\* the k-th item's joined text contains the k-th marker line's text whenever
\* the last word of that line does not end with a hyphen.
C5_ItemsHoldUnhyphenatedMarkerLines ==
  (pc = "classified" /\ C5_Pre) =>
    /\ C5_OneListing
    /\ \A e \in listings(elements, "ordered") :
         \A k \in 1..Len(ordered_markers(block)) :
           Last(Last(block[ordered_markers(block)[k]].words).text) # "-"
             => text_in(line_text(block[ordered_markers(block)[k]]),
                        item_text(elements[e].items[k]))

C5_Witness ==
  /\ pc = "classified" /\ C5_Pre
  /\ Len(ordered_markers(block)) >= 2
  /\ ordered_markers(block)[1] > 1
  /\ \E k \in 1..Len(ordered_markers(block)) :
       Last(Last(block[ordered_markers(block)[k]].words).text) # "-"
  /\ Len(elements) >= 2

\* bullet lines and other lines, no header line and no ordered marker
C6_Pre ==
  /\ no_header_line(block)
  /\ ordered_markers(block) = <<>>
  /\ unordered_markers(block) # <<>>
  /\ Len(unordered_markers(block)) < Len(block)

in_paragraph(id) ==
  \E e \in of_type(elements, "Paragraph") :
    \E k \in 1..Len(elements[e].src) : elements[e].src[k] = id

in_listing(id) ==
  \E e \in of_type(elements, "Listing") :
    \E k \in 1..Len(elements[e].src) : elements[e].src[k] = id

\* C6 as stated: one unordered Listing, and every line that starts no item
\* is in a Paragraph and in no item of the Listing.
C6_BodyLinesStayParagraphs ==
  (pc = "classified" /\ C6_Pre) =>
    /\ Cardinality(listings(elements, "unordered")) = 1
    /\ \A i \in 1..Len(block) :
         ~C6_Marker(block[i])
           => (in_paragraph(block[i].id) /\ ~in_listing(block[i].id))

\* C6, amended: one unordered Listing with an item per bullet line; the
\* lines before the first bullet line are in Paragraphs, and every line
\* from the first bullet line on, bullet or not, is inside the Listing.
C6_BodyLinesAfterBulletAbsorbed ==
  (pc = "classified" /\ C6_Pre) =>
    /\ Cardinality(listings(elements, "unordered")) = 1
    /\ \A e \in listings(elements, "unordered") :
         Len(elements[e].items) = Len(unordered_markers(block))
    /\ \A i \in 1..Len(block) :
         IF i < unordered_markers(block)[1]
         THEN in_paragraph(block[i].id) /\ ~in_listing(block[i].id)
         ELSE in_listing(block[i].id) /\ ~in_paragraph(block[i].id)

C6_Witness ==
  /\ pc = "classified" /\ C6_Pre
  /\ Len(unordered_markers(block)) = 2
  /\ unordered_markers(block)[1] = 2
  /\ unordered_markers(block)[2] = 4
  /\ in_paragraph(block[1].id)
  /\ in_listing(block[3].id)

\* C7: the chapters group_chapters returns are the input sequence cut
\* before each Document that holds an h1 Header: none is empty, their
\* concatenation is the input, every chapter but the first starts at a
\* Document with an h1 Header and no other Document of a chapter has one.
C7_ChaptersPartitionDocuments ==
  pc = "to_html" =>
    /\ chain(chapters) = documents
    /\ \A c \in 1..Len(chapters) :
         /\ chapters[c] # <<>>
         /\ c > 1 => has_title(chapters[c][1])
         /\ \A k \in 2..Len(chapters[c]) : ~has_title(chapters[c][k])

first_h1(doc) ==
  headers(doc)[CHOOSE i \in 1..Len(headers(doc)) :
                 /\ headers(doc)[i].level = "h1"
                 /\ \A j \in 1..(i - 1) : headers(doc)[j].level # "h1"]

RECURSIVE is_permutation(_, _)
is_permutation(a, b) ==
  IF a = <<>> THEN b = <<>>
  ELSE /\ \E i \in 1..Len(b) : b[i] = Head(a)
       /\ LET i == CHOOSE i \in 1..Len(b) : b[i] = Head(a)
          IN is_permutation(Tail(a), SubSeq(b, 1, i - 1) \o SubSeq(b, i + 1, Len(b)))

\* C9: all_elements() of the Document classify returned is a sequence that
\* holds each classified element and each table of the page once, in
\* non-decreasing vertical position.
C9_AllElementsSorted ==
  pc = "all_elements" =>
    /\ ~allEls.none
    /\ is_permutation(allEls.val, document.elements \o page.tables)
    /\ \A i \in 1..(Len(allEls.val) - 1) :
         allEls.val[i].box[2] <= allEls.val[i + 1].box[2]

\* the index of the Line that holds the p-th input word
line_of(p) ==
  CHOOSE k \in 1..Len(lines) :
    /\ Sum([j \in 1..(k - 1) |-> Len(lines[j].words)]) < p
    /\ p <= Sum([j \in 1..k |-> Len(lines[j].words)])

\* C10: the Lines group_lines returns are non-empty, their words in order
\* are the input words, and two adjacent input words whose bottoms differ
\* by at most 1 are in the same Line.
C10_LinesKeepAdjacentWords ==
  pc = "lines" =>
    /\ \A k \in 1..Len(lines) : lines[k].words # <<>>
    /\ chain([k \in 1..Len(lines) |-> lines[k].words]) = words
    /\ \A p \in 1..(Len(words) - 1) :
         (words[p].bottom - words[p + 1].bottom) \in {-1, 0, 1}
           => line_of(p) = line_of(p + 1)

C10_Witness ==
  /\ pc = "lines"
  /\ Len(lines) = 2
  /\ Len(lines[1].words) = 3
  /\ lines[1].words[1].bottom = 20 /\ lines[1].words[3].bottom = 22

\* C12: fix_word_breaks repairs every pair (i, i+1) of its block, the last
\* pair included, whose line i still has words when the scan reaches it
\* and ends with a word ending in a hyphen.
C12_EveryPairRepaired ==
  pc = "fixed" =>
    \A i \in 1..(Len(block) - 1) :
      (/\ Last(Last(block[i].words).text) = "-"
       /\ (Len(block[i].words) >= 2 \/ (i - 1) \notin fixed.repaired))
        => i \in fixed.repaired

\* the block went to the paragraph fallback: no header, no list marker
paragraph_fallback(ls) ==
  /\ ls # <<>>
  /\ ~header_test(ls[1])
  /\ \A i \in 1..Len(ls) : ~C5_Marker(ls[i]) /\ ~C6_Marker(ls[i])

min_x0(ls) == SetMin({ls[i].words[1].x0 : i \in 1..Len(ls)})

starts_paragraph(id) ==
  \E e \in of_type(elements, "Paragraph") : elements[e].src[1] = id

\* C13: in the paragraph fallback with minIndent below 120, a line other
\* than the first starts a new Paragraph exactly when its first word's x0
\* is strictly greater than minIndent + 2.
C13_NewParagraphIffIndentExceeds ==
  (pc = "classified" /\ paragraph_fallback(block) /\ min_x0(block) < 120) =>
    \A i \in 2..Len(block) :
      starts_paragraph(block[i].id) <=> block[i].words[1].x0 > min_x0(block) + 2

\* C14: the elements classify_lines returns are built from contiguous
\* ranges of the input lines, and these ranges follow one another in the
\* order of the lines: the source lines of the elements, read element by
\* element, are the lines of the block in order.
C14_ReadingOrder ==
  pc = "classified" =>
    /\ all_src(elements) = ids_of(block)
    /\ \A e \in 1..Len(elements) : elements[e].src # <<>>

C14_Witness ==
  /\ pc = "classified"
  /\ Len(elements) = 3
  /\ elements[1].type = "Header"
  /\ elements[2].type = "Paragraph"
  /\ elements[3].type = "Listing" /\ Len(elements[3].src) = 2

\* C15 as stated: any two words of a Line have bottoms at most 1 apart.
C15_OneBaselinePerLine ==
  pc = "lines" =>
    \A k \in 1..Len(lines) :
      \A a, b \in 1..Len(lines[k].words) :
        (lines[k].words[a].bottom - lines[k].words[b].bottom) \in {-1, 0, 1}

\* C15, amended: any two adjacent words of a Line have bottoms at most 1
\* apart (so two words of a Line are at most as far apart as the number of
\* steps between them).
C15_AdjacentWordsShareBaseline ==
  pc = "lines" =>
    \A k \in 1..Len(lines) :
      \A a, b \in 1..Len(lines[k].words) :
        LET d == lines[k].words[a].bottom - lines[k].words[b].bottom
        IN a <= b => (d <= b - a /\ -d <= b - a)

C15_Witness ==
  /\ pc = "lines"
  /\ \E k \in 1..Len(lines) :
       /\ Len(lines[k].words) >= 3
       /\ lines[k].words[1].bottom = 22
       /\ lines[k].words[3].bottom = 20
  /\ Len(lines) >= 2

\* the calls, run one after the other, return what classify_lines returns
RecursionAgrees == pc = "returned" => elements = classify_lines(block)

\* every step of NextRecursion is a step of Control
ControlOfNextRecursion == [][NextRecursion => Control]_vars

\* C11: classify_lines terminates on every list of non-empty lines: each
\* recursive call is given a strictly shorter list of non-empty lines, the
\* outermost call returns, what it returns is a list of Headers, Paragraphs
\* and Listings, and for the empty list it is the empty list.
C11_Terminates ==
  /\ [][(pc = "call" /\ pc' = "call") => Len(arg') < Len(arg)]_vars
  /\ [](pc = "call" =>
          /\ idx <= Len(block) + 1
          /\ \A i \in 1..Len(arg) :
               arg[i].words # <<>> /\ arg[i].words[1].text # <<>>)
  /\ <>(pc = "returned")
  /\ [](pc = "returned" =>
          /\ \A e \in 1..Len(elements) :
               elements[e].type \in {"Header", "Paragraph", "Listing"}
          /\ block = <<>> => elements = <<>>
          /\ block # <<>> => elements # <<>>)

C11_Witness ==
  /\ pc = "returned"
  /\ idx = 3
  /\ Len(block) = 4
  /\ Len(elements) = 3

====
